---- MODULE Spec2Model ----
(***************************************************************************)
(* Model of liquidctl's fan/pump speed-profile engine (liquidctl/util.py): *)
(* normalize_profile and interpolate_profile.                              *)
(*                                                                         *)
(* A control point is the tuple <<x, y>> (Python's (x, y)); a profile is a *)
(* sequence of control points.  The functions are pure; the state machine  *)
(* draws a profile and a critx, and applies the functions to them the way  *)
(* a driver does: normalize once, then interpolate for a temperature.      *)
(*                                                                         *)
(* SpecWide applies interpolate_profile to wide segments, SpecNum calls    *)
(* clamp and fraction_of_byte, and SpecSeq / SpecRace run the sequence     *)
(* generator of the Platinum driver (driver/coolit_platinum.py) over       *)
(* RuntimeStorage with one and with two liquidctl processes.               *)
(*                                                                         *)
(* SpecFan calls the Platinum driver's set_fixed_speed, SpecStore stores   *)
(* and loads integers through RuntimeStorage, SpecFind runs                *)
(* find_liquidctl_devices, SpecUsb opens and closes a PyUsbDevice,         *)
(* SpecExport runs the export loop and SpecHxi drives a Corsair HXi power  *)
(* supply.                                                                 *)
(***************************************************************************)
EXTENDS Integers, Sequences, FiniteSets

\* ---- bounds of the model ------------------------------------------------
\* longest profile drawn
MaxLen == 3
\* temperatures of the profile's points are 0..MaxX
MaxX == 2
\* duties of the profile's points are 0, 100 and the fraction 100/DutyLevels
DutyLevels == 2

Temps == 0 .. MaxX
Duties == {0, 100 \div DutyLevels, 100}
Points == Temps \X Duties
\* critx may lie below, inside or above the profile's temperatures
Crits == (0 - 1) .. (MaxX + 1)
\* query temperatures lie below, inside or above every curve
Queries == (0 - 1) .. (MaxX + 2)

RECURSIVE SeqsUpTo(_)
SeqsUpTo(n) ==
    IF n = 0 THEN { <<>> }
    ELSE LET shorter == SeqsUpTo(n - 1)
         IN  shorter \cup { Append(s, p) : s \in { t \in shorter : Len(t) = n - 1 }, p \in Points }

Profiles == SeqsUpTo(MaxLen)

\* ---- util.py: normalize_profile -----------------------------------------

\* the key (p[0], p[1]): among equal x the lower y first
KeyLessAscending(p, q) == \/ p[1] < q[1]
                          \/ p[1] = q[1] /\ p[2] < q[2]

\* key=lambda p: (p[0], -p[1]) compared as Python compares tuples
KeyLess(p, q) == \/ p[1] < q[1]
                 \/ p[1] = q[1] /\ (0 - p[2]) < (0 - q[2])

\* sorted(..., key=...): ascending by key, stable (an element goes after the
\* elements whose key is not greater)
RECURSIVE InsertSorted(_, _)
InsertSorted(p, s) ==
    IF s = <<>> THEN <<p>>
    ELSE IF KeyLess(p, Head(s)) THEN <<p>> \o s
    ELSE <<Head(s)>> \o InsertSorted(p, Tail(s))

RECURSIVE Sorted(_)
Sorted(s) ==
    IF s = <<>> THEN <<>>
    ELSE InsertSorted(s[Len(s)], Sorted(SubSeq(s, 1, Len(s) - 1)))

\* the loop over zip(profile[1:], profile[:-1]): at step i the candidate is
\* sorted[i] and (xb, yb) is its predecessor sorted[i - 1] in the SORTED list
RECURSIVE NormalizeLoop(_, _, _)
NormalizeLoop(sorted, i, mono) ==
    IF i > Len(sorted) THEN mono
    ELSE LET x  == sorted[i][1]
             y  == sorted[i][2]
             xb == sorted[i - 1][1]
             yb == sorted[i - 1][2]
             y2 == IF y < yb THEN yb ELSE y
         IN  IF x = xb THEN NormalizeLoop(sorted, i + 1, mono)
             ELSE IF y2 = 100 THEN Append(mono, <<x, y2>>)
             ELSE NormalizeLoop(sorted, i + 1, Append(mono, <<x, y2>>))

\* normalize_profile with the sort forgotten
normalize_profile_unsorted(prof, c) ==
    LET sorted == prof \o << <<c, 100>> >>
    IN  NormalizeLoop(sorted, 2, SubSeq(sorted, 1, 1))

\* normalize_profile with mono started empty instead of profile[0:1]
normalize_profile_nofirst(prof, c) ==
    LET sorted == Sorted(prof \o << <<c, 100>> >>)
    IN  NormalizeLoop(sorted, 2, <<>>)

normalize_profile(prof, c) ==
    LET sorted == Sorted(prof \o << <<c, 100>> >>)
    IN  NormalizeLoop(sorted, 2, SubSeq(sorted, 1, 1))

\* ---- util.py: interpolate_profile ---------------------------------------

\* ---- IEEE-754 binary64 arithmetic, as far as interpolate_profile uses it --
\* A non-negative double below 2^15 is the record [i |-> integer part,
\* f |-> fraction], f a sequence of limbs of LimbBits bits each, the k-th
\* limb weighing LimbBase^-k.  Every operation computes the exact result and
\* rounds it to Precision significant bits, ties to even, as the hardware
\* does.
Precision == 53
LimbBits == 15
\* limbs of a quotient computed before rounding: more than the leading zeros
\* of a quotient >= 2^-LimbBits plus Precision bits plus the guard bit
QuotientLimbs == 6

RECURSIVE Pow2(_)
Pow2(k) == IF k = 0 THEN 1 ELSE 2 * Pow2(k - 1)

LimbBase == Pow2(LimbBits)

RECURSIVE BitLength(_)
BitLength(n) == IF n = 0 THEN 0 ELSE 1 + BitLength(n \div 2)

IsZeroLimbs(f) == \A k \in 1 .. Len(f) : f[k] = 0

\* number of zero bits of 0.f before its first one bit (f not zero)
LeadingZeroBits(f) ==
    LET j == CHOOSE k \in 1 .. Len(f) :
                 f[k] # 0 /\ \A m \in 1 .. (k - 1) : f[m] = 0
    IN  LimbBits * (j - 1) + (LimbBits - BitLength(f[j]))

\* 0.f + c * LimbBase^-Len(f): <<carry into the integer part, limbs>>
RECURSIVE AddCarry(_, _)
AddCarry(f, c) ==
    IF f = <<>> THEN <<c, <<>> >>
    ELSE LET acc == f[Len(f)] + c
             up  == AddCarry(SubSeq(f, 1, Len(f) - 1), acc \div LimbBase)
         IN  <<up[1], Append(up[2], acc % LimbBase)>>

\* round-to-nearest-even of the exact value i + 0.f (+ an unknown non-zero
\* amount below the last limb when sticky) to Precision significant bits
RoundToDouble(i, f, sticky) ==
    IF i = 0 /\ IsZeroLimbs(f) THEN [i |-> 0, f |-> <<>>]
    ELSE
    LET keep == IF i > 0 THEN Precision - BitLength(i)
                ELSE LeadingZeroBits(f) + Precision
        q    == keep \div LimbBits
        o    == keep % LimbBits
    IN  IF keep >= LimbBits * Len(f) THEN [i |-> i, f |-> f]
        ELSE LET unit == Pow2(LimbBits - o)
                 half == unit \div 2
                 hi   == f[q + 1] \div unit
                 lo   == f[q + 1] % unit
                 rest == sticky \/ ~IsZeroLimbs(SubSeq(f, q + 2, Len(f)))
                 lsb  == IF o > 0 THEN hi % 2
                         ELSE IF q > 0 THEN f[q] % 2 ELSE i % 2
                 kept == Append(SubSeq(f, 1, q), hi * unit)
                 up   == lo > half \/ (lo = half /\ (rest \/ lsb = 1))
             IN  IF up
                 THEN IF (hi + 1) * unit < LimbBase
                      THEN [i |-> i, f |-> Append(SubSeq(f, 1, q), (hi + 1) * unit)]
                      ELSE LET c == AddCarry(SubSeq(f, 1, q), 1)
                           IN  [i |-> i + c[1], f |-> Append(c[2], 0)]
                 ELSE [i |-> i, f |-> kept]

\* the first n limbs of r / w (0 <= r < w) and the remainder left:
\* <<limbs, remainder>>
RECURSIVE DivLimbs(_, _, _)
DivLimbs(r, w, n) ==
    IF n = 0 THEN << <<>>, r>>
    ELSE LET rest == DivLimbs((r * LimbBase) % w, w, n - 1)
         IN  << <<(r * LimbBase) \div w>> \o rest[1], rest[2]>>

\* the double a / b for integers a >= 0, b > 0
FloatDiv(a, b) ==
    LET quot == DivLimbs(a % b, b, QuotientLimbs)
    IN  RoundToDouble(a \div b, quot[1], quot[2] # 0)

\* 0.f * n exactly: <<carry into the integer part, limbs>>
RECURSIVE MulLimbs(_, _)
MulLimbs(f, n) ==
    IF f = <<>> THEN <<0, <<>> >>
    ELSE LET low == MulLimbs(Tail(f), n)
             acc == f[1] * n + low[1]
         IN  <<acc \div LimbBase, <<acc % LimbBase>> \o low[2]>>

\* the double d * n for a double d and an integer n >= 0
FloatMul(d, n) ==
    LET prod == MulLimbs(d.f, n)
    IN  RoundToDouble(d.i * n + prod[1], prod[2], FALSE)

\* 1 - 0.f for a non-zero fraction f
RECURSIVE Complement(_)
Complement(f) ==
    IF f[Len(f)] # 0
    THEN [k \in 1 .. Len(f) |->
             IF k = Len(f) THEN LimbBase - f[k] ELSE LimbBase - 1 - f[k]]
    ELSE Append(Complement(SubSeq(f, 1, Len(f) - 1)), 0)

\* the double n + d (neg = FALSE) or n - d (neg = TRUE) for an integer
\* n >= 0 and a double d: [neg |-> sign of the sum, i, f |-> its magnitude]
FloatAdd(n, neg, d) ==
    LET signed(s, m) == [neg |-> s, i |-> m.i, f |-> m.f]
    IN  IF ~neg THEN signed(FALSE, RoundToDouble(n + d.i, d.f, FALSE))
        ELSE IF IsZeroLimbs(d.f)
             THEN [neg |-> n < d.i, f |-> <<>>,
                   i |-> IF n < d.i THEN d.i - n ELSE n - d.i]
        ELSE IF n - d.i - 1 >= 0
             THEN signed(FALSE, RoundToDouble(n - d.i - 1, Complement(d.f), FALSE))
        ELSE signed(TRUE, RoundToDouble(d.i - n, d.f, FALSE))

\* Python's round() of a double: the nearest integer, an exact half goes to
\* the even integer
PyRound(s) ==
    LET halfLimb == LimbBase \div 2
        mag == IF s.f = <<>> \/ s.f[1] < halfLimb THEN s.i
               ELSE IF s.f[1] > halfLimb \/ ~IsZeroLimbs(Tail(s.f)) THEN s.i + 1
               ELSE IF s.i % 2 = 0 THEN s.i ELSE s.i + 1
    IN  IF s.neg THEN 0 - mag ELSE mag

\* round(ly + dx / w * dy) in double arithmetic, for 0 <= dx and 0 < w
RoundedLine(ly, dx, w, dy) ==
    LET t == FloatDiv(dx, w)
        p == FloatMul(t, IF dy < 0 THEN 0 - dy ELSE dy)
    IN  PyRound(FloatAdd(ly, dy < 0, p))

\* the scan with < and > for <= and >=
RECURSIVE BracketLoopStrict(_, _, _, _, _)
BracketLoopStrict(prof, q, i, lower, upper) ==
    IF i > Len(prof) THEN <<lower, upper>>
    ELSE LET step == prof[i]
             lo   == IF step[1] < q THEN step ELSE lower
         IN  IF step[1] > q THEN <<lo, step>>
             ELSE BracketLoopStrict(prof, q, i + 1, lo, upper)

\* the scan that never moves lower from the first point
RECURSIVE BracketLoopLowerStuck(_, _, _, _, _)
BracketLoopLowerStuck(prof, q, i, lower, upper) ==
    IF i > Len(prof) THEN <<lower, upper>>
    ELSE LET step == prof[i]
         IN  IF step[1] >= q THEN <<lower, step>>
             ELSE BracketLoopLowerStuck(prof, q, i + 1, lower, upper)

\* the scan `for step in profile`: returns <<lower, upper>>
RECURSIVE BracketLoop(_, _, _, _, _)
BracketLoop(prof, q, i, lower, upper) ==
    IF i > Len(prof) THEN <<lower, upper>>
    ELSE LET step == prof[i]
             lo   == IF step[1] <= q THEN step ELSE lower
         IN  IF step[1] >= q THEN <<lo, step>>
             ELSE BracketLoop(prof, q, i + 1, lo, upper)

\* interpolate_profile with upper[1] + lower[1] for upper[1] - lower[1]
interpolate_profile_sum(prof, q) ==
    LET lu    == BracketLoop(prof, q, 1, prof[1], prof[Len(prof)])
        lower == lu[1]
        upper == lu[2]
    IN  IF lower[1] = upper[1] THEN lower[2]
        ELSE RoundedLine(lower[2], q - lower[1], upper[1] - lower[1],
                         upper[2] + lower[2])

\* defined for a non-empty profile (profile[0] raises IndexError otherwise)
interpolate_profile(prof, q) ==
    LET lu    == BracketLoop(prof, q, 1, prof[1], prof[Len(prof)])
        lower == lu[1]
        upper == lu[2]
    IN  IF lower[1] = upper[1] THEN lower[2]
        ELSE RoundedLine(lower[2], q - lower[1], upper[1] - lower[1],
                         upper[2] - lower[2])

\* ---- util.py: clamp and fraction_of_byte -----------------------------------

\* None, and a value that is not None
None == <<>>
Some(v) == <<v>>

\* Python's min(a, b) and max(a, b): the first argument unless the second is
\* smaller (larger)
PyMin(a, b) == IF b < a THEN b ELSE a
PyMax(a, b) == IF b > a THEN b ELSE a

\* clamp with min and max exchanged
clamp_swapped(value, clampmin, clampmax) ==
    PyMin(clampmin, PyMax(clampmax, value))

clamp(value, clampmin, clampmax) ==
    PyMax(clampmin, PyMin(clampmax, value))

\* the double a / b for integers a, b with b > 0, with its sign
SignedDiv(a, b) ==
    LET m == FloatDiv(IF a < 0 THEN 0 - a ELSE a, b)
    IN  [neg |-> a < 0, i |-> m.i, f |-> m.f]

\* ratio < 0 and ratio > 1 for a signed double
BelowZero(r) == r.neg /\ ~(r.i = 0 /\ IsZeroLimbs(r.f))
AboveOne(r) == ~r.neg /\ (r.i > 1 \/ (r.i = 1 /\ ~IsZeroLimbs(r.f)))

\* fraction_of_byte without the test of the ratio's range
fraction_of_byte_unchecked(ratio, percentage) ==
    LET r == IF percentage # None THEN Some(SignedDiv(percentage[1], 100))
             ELSE ratio
    IN  IF r # None
        THEN [err |-> "none",
              val |-> PyRound([neg |-> r[1].neg, i |-> FloatMul(r[1], 255).i,
                               f |-> FloatMul(r[1], 255).f])]
        ELSE [err |-> "ValueError", val |-> 0]

\* fraction_of_byte with int() for round()
fraction_of_byte_truncated(ratio, percentage) ==
    LET r == IF percentage # None THEN Some(SignedDiv(percentage[1], 100))
             ELSE ratio
    IN  IF r # None
        THEN IF BelowZero(r[1]) \/ AboveOne(r[1])
             THEN [err |-> "ValueError", val |-> 0]
             ELSE [err |-> "none", val |-> FloatMul(r[1], 255).i]
        ELSE [err |-> "ValueError", val |-> 0]

\* fraction_of_byte(ratio, percentage) for ratio None or a double and
\* percentage None or an integer: the value returned or the error raised
fraction_of_byte(ratio, percentage) ==
    LET r == IF percentage # None THEN Some(SignedDiv(percentage[1], 100))
             ELSE ratio
    IN  IF r # None
        THEN IF BelowZero(r[1]) \/ AboveOne(r[1])
             THEN [err |-> "ValueError", val |-> 0]
             ELSE LET prod == FloatMul(r[1], 255)
                  IN  [err |-> "none",
                       val |-> PyRound([neg |-> r[1].neg, i |-> prod.i,
                                        f |-> prod.f])]
        ELSE [err |-> "ValueError", val |-> 0]

\* ---- util.py: RuntimeStorage; coolit_platinum.py: sequence ------------------

\* the liquidctl processes (invocations running at the same time)
Procs == {1, 2}
\* keys stored by the Platinum driver: its generator's and set_fixed_speed's
Keys == {"sequence", "fan1_duty", "fan2_duty"}
\* self._read_dirs, in order of preference; the first is self._write_dir
ReadDirs == <<1, 2>>
WriteDir == ReadDirs[1]

\* a file of a runtime directory: text is None for the empty file, else the
\* integer written in it
NoFile == [isfile |-> FALSE, readable |-> FALSE, text |-> None]
FileOf(text) == [isfile |-> TRUE, readable |-> TRUE, text |-> text]

\* self._cache: per key, NotCached or Cached(value), value None or an integer
NotCached == <<>>
Cached(value) == <<value>>
EmptyCache == [k \in Keys |-> NotCached]

\* load_int that never looks into the cache
load_int_uncached(c, fs, key, default) ==
    LET found == { k \in 1 .. Len(ReadDirs) :
                      fs[ReadDirs[k]][key].isfile /\ fs[ReadDirs[k]][key].readable }
    IN  IF found = {} THEN [value |-> default, cache |-> c]
        ELSE LET k == CHOOSE m \in found : \A n \in found : m <= n
                 v == fs[ReadDirs[k]][key].text
             IN  [value |-> IF v # None THEN v[1] ELSE default,
                  cache |-> [c EXCEPT ![key] = Cached(v)]]

\* load_int(key, default) on the cache c and the files fs: the value
\* returned and the cache afterwards
load_int(c, fs, key, default) ==
    IF c[key] # NotCached
    THEN [value |-> IF c[key][1] # None THEN c[key][1][1] ELSE default,
          cache |-> c]
    ELSE LET found == { k \in 1 .. Len(ReadDirs) :
                          fs[ReadDirs[k]][key].isfile /\ fs[ReadDirs[k]][key].readable }
         IN  IF found = {} THEN [value |-> default, cache |-> c]
             ELSE LET k == CHOOSE m \in found : \A n \in found : m <= n
                      v == fs[ReadDirs[k]][key].text
                  IN  [value |-> IF v # None THEN v[1] ELSE default,
                       cache |-> [c EXCEPT ![key] = Cached(v)]]

\* open(path, mode='w') in store_int: the file exists and is empty
OpenForWrite(fs, key) == [fs EXCEPT ![WriteDir][key] = FileOf(None)]

\* the rest of store_int(key, value): the text is written
WriteInt(fs, key, value) ==
    [fs EXCEPT ![WriteDir][key] =
        FileOf(IF value = None THEN None ELSE Some(value[1]))]

\* the generator's step with % 32 for % 31
NextSequenceMod32(stored) == (stored % 32) + 1

\* the generator's step: load_int('sequence', default=0) % 31 + 1
NextSequence(stored) == (stored % 31) + 1

\* _FEATURE_COOLING and _CMD_GET_STATUS
FeatureCooling == 0
CmdGetStatus == 255

\* buf[2] and buf[3] of _send_command(feature, command) with a feature:
\* buf[2] = seq << 3 | feature (feature < 8)
Report(n, feature, command) == [byte2 |-> n * 8 + feature, byte3 |-> command]

\* store_int that leaves the cache as it is
store_int_nocache(c, fs, key, value) ==
    [cache |-> c,
     files |-> WriteInt(OpenForWrite(fs, key), key, value)]

\* store_int(key, value) as a whole: the cache and the files afterwards
store_int(c, fs, key, value) ==
    [cache |-> [c EXCEPT ![key] = Cached(value)],
     files |-> WriteInt(OpenForWrite(fs, key), key, value)]

\* ---- coolit_platinum.py: set_fixed_speed ----------------------------------------

\* _CMD_SET_COOLING
CmdSetCooling == 20

\* channel.lower() on the channel names drawn
Lower(channel) ==
    CASE channel = "FAN" -> "fan"
      [] channel = "Fan1" -> "fan1"
      [] OTHER -> channel

\* int(duty * 2.55) for a duty in 0 .. 100, 2.55 being the double 255 / 100
DutyByte(d) == FloatMul(FloatDiv(255, 100), d).i

\* `for key in keys: self._data.store_int(key, duty)`
RECURSIVE StoreAll(_, _, _, _)
StoreAll(c, fs, keys, d) ==
    IF keys = <<>> THEN [cache |-> c, files |-> fs]
    ELSE LET st == store_int(c, fs, keys[1], Some(d))
         IN  StoreAll(st.cache, st.files, Tail(keys), d)

\* set_fixed_speed up to its stores, taking an unknown channel for 'fan'
\* and raising only after the stores
FixedSpeedStoresUnchecked(c, fs, channel, d) ==
    LET st == StoreAll(c, fs, <<"fan1_duty", "fan2_duty">>, clamp(d, 0, 100))
    IN  [err |-> IF Lower(channel) = "fan" THEN "SyntaxError"
                 ELSE IF Lower(channel) \in {"fan1", "fan2"} THEN "NameError"
                 ELSE "ValueError",
         cache |-> IF Lower(channel) \in {"fan", "fan1", "fan2"} THEN c ELSE st.cache,
         files |-> IF Lower(channel) \in {"fan", "fan1", "fan2"} THEN fs ELSE st.files]

\* set_fixed_speed(channel, duty) up to its stores (lines 129-139): the error
\* raised, the cache and the files.  The branch of 'fan' is line 133, which
\* does not parse (SyntaxError, raised when the module is imported); the
\* branch of 'fan1' and 'fan2' is line 135, whose `name` is bound nowhere
\* (NameError); every other channel raises ValueError.  No branch binds
\* `keys`, so the loop of the stores is never entered.
FixedSpeedStores(c, fs, channel, d) ==
    LET duty0 == clamp(d, 0, 100)
        keys  == <<>>
        st    == StoreAll(c, fs, keys, duty0)
    IN  [err |-> IF Lower(channel) = "fan" THEN "SyntaxError"
                 ELSE IF Lower(channel) \in {"fan1", "fan2"} THEN "NameError"
                 ELSE "ValueError",
         cache |-> st.cache,
         files |-> st.files]

\* the fan bytes of _send_set_cooling's data: int(duty * 2.55) of the stored
\* duties, 100 for a fan never stored; the cache after the two loads
SetCoolingData(c, fs) ==
    LET l1 == load_int(c, fs, "fan1_duty", 100)
        l2 == load_int(l1.cache, fs, "fan2_duty", 100)
    IN  [data |-> <<DutyByte(clamp(l1.value, 0, 100)),
                    DutyByte(clamp(l2.value, 0, 100))>>,
         cache |-> l2.cache]

\* ---- state ---------------------------------------------------------------
\* profile .. pc: the speed-profile engine; args, ret: a call of a numeric
\* helper and what it returned
\* files .. stored0: the runtime storage and, per liquidctl process, the
\* Platinum driver's sequence generator (fresh: no number drawn yet in this
\* invocation) and the reports it wrote
\* finder: a find_liquidctl_devices generator; usbdev: a PyUsbDevice and the
\* kernel driver of its interface; exporter: a run of _run_export_loop and
\* its devices; psu: a Corsair HXi power supply and the reports written to it
VARIABLES profile, critx, mono, x, duty, err, pc, args, ret,
          files, cache, gen, seq, fresh, sent, stored0,
          finder, usbdev, exporter, psu

profileVars == <<profile, critx, mono, x, duty>>
helperVars == <<args, ret>>
storageVars == <<files, cache, gen, seq, fresh, sent, stored0>>
deviceVars == <<finder, usbdev, exporter, psu>>
vars == <<profile, critx, mono, x, duty, err, pc, args, ret,
          files, cache, gen, seq, fresh, sent, stored0,
          finder, usbdev, exporter, psu>>

\* an object that does not exist in the run at hand
Absent == [pc |-> "absent"]

\* no generator, no device
DevicesIdle ==
    /\ finder = Absent
    /\ usbdev = Absent
    /\ exporter = Absent
    /\ psu = Absent

\* no storage, no driver
StorageIdle ==
    /\ files = [d \in {1, 2} |-> [k \in Keys |-> NoFile]]
    /\ cache = [p \in Procs |-> EmptyCache]
    /\ gen = [p \in Procs |-> "idle"]
    /\ seq = [p \in Procs |-> 0]
    /\ fresh = [p \in Procs |-> TRUE]
    /\ sent = [p \in Procs |-> <<>>]
    /\ stored0 = 0

\* no helper called
NoArgs == [fn |-> "none", ratio |-> None, percentage |-> None,
           value |-> 0, clampmin |-> 0, clampmax |-> 0]

\* no profile, no helper, no storage
EngineIdle ==
    /\ profile = <<>>
    /\ critx = 0
    /\ mono = <<>>
    /\ x = 0
    /\ duty = 0
    /\ args = NoArgs
    /\ ret = 0
    /\ StorageIdle
engineVars == <<profile, critx, mono, x, duty, args, ret,
                files, cache, gen, seq, fresh, sent, stored0>>

Init ==
    /\ profile \in Profiles
    /\ critx \in Crits
    /\ mono = <<>>
    /\ x = 0
    /\ duty = 0
    /\ err = "none"
    /\ pc = "input"
    /\ args = NoArgs
    /\ ret = 0
    /\ StorageIdle
    /\ DevicesIdle

\* a driver normalizes the profile it was given
Normalize ==
    /\ pc = "input"
    /\ mono' = normalize_profile(profile, critx)
    /\ pc' = "normalized"
    /\ UNCHANGED <<profile, critx, x, duty, err>>
    /\ UNCHANGED helperVars
    /\ UNCHANGED storageVars
    /\ UNCHANGED deviceVars

\* the curve interpolate_profile is, or was, called with
Curve == IF pc \in {"input", "interpolated_raw"} THEN profile ELSE mono

\* interpolate_profile(curve, q) returning a sentinel for the empty curve
InterpolateSentinel(Q) ==
    /\ pc \in {"input", "normalized"}
    /\ \E q \in Q :
         /\ x' = q
         /\ duty' = IF Curve = <<>> THEN 0 ELSE interpolate_profile(Curve, q)
         /\ err' = "none"
    /\ pc' = IF pc = "input" THEN "interpolated_raw" ELSE "interpolated"
    /\ UNCHANGED <<profile, critx, mono>>
    /\ UNCHANGED helperVars
    /\ UNCHANGED storageVars
    /\ UNCHANGED deviceVars

\* interpolate_profile(curve, q) for some temperature q of Q, on the
\* normalized curve (the driver's use) or directly on the profile as given;
\* profile[0] raises IndexError when the curve is empty
InterpolateFrom(Q) ==
    /\ pc \in {"input", "normalized"}
    /\ \E q \in Q :
         /\ x' = q
         /\ IF Curve = <<>>
            THEN duty' = duty /\ err' = "IndexError"
            ELSE duty' = interpolate_profile(Curve, q) /\ err' = "none"
    /\ pc' = IF pc = "input" THEN "interpolated_raw" ELSE "interpolated"
    /\ UNCHANGED <<profile, critx, mono>>
    /\ UNCHANGED helperVars
    /\ UNCHANGED storageVars
    /\ UNCHANGED deviceVars

Interpolate == InterpolateFrom(Queries)

Next == Normalize \/ Interpolate

Spec == Init /\ [][Next]_vars

\* ---- interpolation over wider segments -------------------------------------
\* widest segment drawn
MaxWidth == 10
\* duties of the segment's ends are the multiples of 100/WideLevels
WideLevels == 20

WideDuties == { (100 * k) \div WideLevels : k \in 0 .. WideLevels }
WideQueries == 0 .. MaxWidth

\* a curve of one segment, from (0, ly) to (w, uy)
InitWide ==
    /\ \E w \in 1 .. MaxWidth, ly \in WideDuties, uy \in WideDuties :
           profile = << <<0, ly>>, <<w, uy>> >>
    /\ critx = MaxWidth
    /\ mono = <<>>
    /\ x = 0
    /\ duty = 0
    /\ err = "none"
    /\ pc = "input"
    /\ args = NoArgs
    /\ ret = 0
    /\ StorageIdle
    /\ DevicesIdle

InterpolateWide == InterpolateFrom(WideQueries)

NextWide == InterpolateWide

SpecWide == InitWide /\ [][NextWide]_vars

\* ---- the numeric helpers ----------------------------------------------------
\* ratios drawn are the doubles nearest n / RatioDen
RatioDen == 10
\* ratios and percentages drawn go this far below 0 and above 1 (100 %)
Slack == 2
\* clamp's interval ends are drawn from 0 .. ClampSpan
ClampSpan == 3

FractionArgs ==
    [fn : {"fraction_of_byte"},
     ratio : {None} \cup { Some(n) : n \in (0 - Slack) .. (RatioDen + Slack) },
     percentage : {None} \cup { Some(n) : n \in (0 - Slack) .. (100 + Slack) },
     value : {0}, clampmin : {0}, clampmax : {0}]

ClampArgs ==
    [fn : {"clamp"}, ratio : {None}, percentage : {None},
     value : (0 - Slack) .. (ClampSpan + Slack),
     clampmin : 0 .. ClampSpan, clampmax : 0 .. ClampSpan]

InitNum ==
    /\ args \in FractionArgs \cup ClampArgs
    /\ ret = 0
    /\ err = "none"
    /\ pc = "call"
    /\ profile = <<>>
    /\ critx = 0
    /\ mono = <<>>
    /\ x = 0
    /\ duty = 0
    /\ StorageIdle
    /\ DevicesIdle

\* a call clamp(value, clampmin, clampmax)
Clamp ==
    /\ pc = "call"
    /\ args.fn = "clamp"
    /\ ret' = clamp(args.value, args.clampmin, args.clampmax)
    /\ err' = "none"
    /\ pc' = "returned"
    /\ UNCHANGED <<profile, critx, mono, x, duty, args>>
    /\ UNCHANGED storageVars
    /\ UNCHANGED deviceVars

\* a call fraction_of_byte(ratio=..., percentage=...); the ratio n is the
\* float literal n / RatioDen
FractionOfByte ==
    /\ pc = "call"
    /\ args.fn = "fraction_of_byte"
    /\ LET ratio == IF args.ratio = None THEN None
                    ELSE Some(SignedDiv(args.ratio[1], RatioDen))
           out   == fraction_of_byte(ratio, args.percentage)
       IN  /\ err' = out.err
           /\ ret' = IF out.err = "none" THEN out.val ELSE ret
    /\ pc' = "returned"
    /\ UNCHANGED <<profile, critx, mono, x, duty, args>>
    /\ UNCHANGED storageVars
    /\ UNCHANGED deviceVars

NextNum == Clamp \/ FractionOfByte

SpecNum == InitNum /\ [][NextNum]_vars

\* ---- the Platinum driver's sequence numbers -----------------------------------
\* commands sent per process
MaxCmds == 2

\* what the 'sequence' file of a directory may hold at the start
StoredSamples == {0, 30, 31, 40}
Texts == {None} \cup { Some(n) : n \in StoredSamples }

\* the write directory holds no file or a file this user wrote; the fallback
\* directory may hold a file of another user, readable or not
InitSeq ==
    /\ \E f1 \in {NoFile} \cup { FileOf(t) : t \in Texts },
          f2 \in {NoFile} \cup { FileOf(t) : t \in Texts }
                          \cup { [FileOf(Some(31)) EXCEPT !.readable = FALSE] } :
          files = [d \in {1, 2} |-> [k \in Keys |-> IF d = WriteDir THEN f1 ELSE f2]]
    /\ cache = [p \in Procs |-> EmptyCache]
    /\ gen = [p \in Procs |-> "idle"]
    /\ seq = [p \in Procs |-> 0]
    /\ fresh = [p \in Procs |-> TRUE]
    /\ sent = [p \in Procs |-> <<>>]
    /\ stored0 = load_int(EmptyCache, files, "sequence", 0).value
    /\ DevicesIdle
    /\ err = "none"
    /\ pc = "driver"
    /\ profile = <<>>
    /\ critx = 0
    /\ mono = <<>>
    /\ x = 0
    /\ duty = 0
    /\ args = NoArgs
    /\ ret = 0

\* _send_command asks the generator for the next number: the generator
\* loads the stored sequence
SeqLoad(p) ==
    /\ gen[p] = "idle"
    /\ err = "none"
    /\ Len(sent[p]) < MaxCmds
    /\ LET loaded == load_int(cache[p], files, "sequence", 0)
       IN  /\ seq' = [seq EXCEPT ![p] = NextSequence(loaded.value)]
           /\ cache' = [cache EXCEPT ![p] = loaded.cache]
    /\ gen' = [gen EXCEPT ![p] = "loaded"]
    /\ UNCHANGED <<files, fresh, sent, stored0, err, pc>>
    /\ UNCHANGED profileVars
    /\ UNCHANGED deviceVars
    /\ UNCHANGED helperVars

\* store_int('sequence', seq) opens the file for writing
SeqOpen(p) ==
    /\ gen[p] = "loaded"
    /\ files' = OpenForWrite(files, "sequence")
    /\ gen' = [gen EXCEPT ![p] = "opened"]
    /\ UNCHANGED <<cache, seq, fresh, sent, stored0, err, pc>>
    /\ UNCHANGED profileVars
    /\ UNCHANGED deviceVars
    /\ UNCHANGED helperVars

\* store_int writes the number and caches it, the generator yields it and
\* _send_command (here of get_status) writes the report; bytearray refuses a
\* value above 255 with ValueError
SeqStoreSend(p) ==
    /\ gen[p] = "opened"
    /\ files' = WriteInt(files, "sequence", Some(seq[p]))
    /\ cache' = [cache EXCEPT ![p]["sequence"] = Cached(Some(seq[p]))]
    /\ gen' = [gen EXCEPT ![p] = "idle"]
    /\ LET report == Report(seq[p], FeatureCooling, CmdGetStatus)
       IN  IF report.byte2 > 255
           THEN err' = "ValueError" /\ sent' = sent
           ELSE /\ err' = err
                /\ sent' = [sent EXCEPT ![p] =
                              Append(@, [first |-> fresh[p], byte2 |-> report.byte2,
                                         byte3 |-> report.byte3, data |-> <<>>])]
    /\ fresh' = [fresh EXCEPT ![p] = FALSE]
    /\ UNCHANGED <<seq, stored0, pc>>
    /\ UNCHANGED profileVars
    /\ UNCHANGED deviceVars
    /\ UNCHANGED helperVars

\* the process ends and liquidctl is invoked again: connect() makes a new
\* RuntimeStorage, with an empty cache, and a new generator
Reconnect(p) ==
    /\ gen[p] = "idle"
    /\ ~fresh[p]
    /\ fresh' = [fresh EXCEPT ![p] = TRUE]
    /\ cache' = [cache EXCEPT ![p] = EmptyCache]
    /\ UNCHANGED <<files, gen, seq, sent, stored0, err, pc>>
    /\ UNCHANGED profileVars
    /\ UNCHANGED deviceVars
    /\ UNCHANGED helperVars

\* one driver at a time
NextSeq ==
    \E p \in {1} : SeqLoad(p) \/ SeqOpen(p) \/ SeqStoreSend(p) \/ Reconnect(p)

SpecSeq == InitSeq /\ [][NextSeq]_vars

\* two liquidctl processes at the same time
NextRace ==
    \E p \in Procs : SeqLoad(p) \/ SeqOpen(p) \/ SeqStoreSend(p) \/ Reconnect(p)

SpecRace == InitSeq /\ [][NextRace]_vars

\* ---- the Platinum driver's fixed fan speeds ------------------------------------
\* channels and duties set_fixed_speed is called with
Channels == {"fan", "fan1", "fan2", "FAN", "Fan1", "pump", "fan3", ""}
FanDuties == {0 - 5, 0, 42, 84, 100, 120}

\* a call set_fixed_speed(channel, d); when the stores are reached,
\* _send_set_cooling draws the next sequence number and writes the report
SetFixedSpeedCall(p, channel, d) ==
    /\ gen[p] = "idle"
    /\ args' = [fn |-> "set_fixed_speed", channel |-> channel, duty |-> d]
    /\ LET st == FixedSpeedStores(cache[p], files, channel, d)
       IN  IF st.err # "none"
           THEN /\ err' = st.err
                /\ cache' = [cache EXCEPT ![p] = st.cache]
                /\ files' = st.files
                /\ UNCHANGED <<gen, seq, fresh, sent, stored0>>
           ELSE LET cool   == SetCoolingData(st.cache, st.files)
                    loaded == load_int(cool.cache, st.files, "sequence", 0)
                    n      == NextSequence(loaded.value)
                    stored == store_int(loaded.cache, st.files, "sequence", Some(n))
                    report == Report(n, FeatureCooling, CmdSetCooling)
                IN  /\ err' = "none"
                    /\ cache' = [cache EXCEPT ![p] = stored.cache]
                    /\ files' = stored.files
                    /\ seq' = [seq EXCEPT ![p] = n]
                    /\ sent' = [sent EXCEPT ![p] =
                                  Append(@, [first |-> fresh[p], byte2 |-> report.byte2,
                                             byte3 |-> report.byte3, data |-> cool.data])]
                    /\ fresh' = [fresh EXCEPT ![p] = FALSE]
                    /\ UNCHANGED <<gen, stored0>>
    /\ UNCHANGED <<ret, pc>>
    /\ UNCHANGED profileVars
    /\ UNCHANGED deviceVars

SetFixedSpeed(p) == \E channel \in Channels, d \in FanDuties : SetFixedSpeedCall(p, channel, d)

\* one driver: status reads and fixed speeds
NextFan ==
    \E p \in {1} : SeqLoad(p) \/ SeqOpen(p) \/ SeqStoreSend(p) \/ SetFixedSpeed(p)

SpecFan == InitSeq /\ [][NextFan]_vars

\* ---- RuntimeStorage on its own -------------------------------------------------
\* keys, values and defaults of the calls drawn
StoreKeys == {"sequence", "fan1_duty"}
StoreValues == Texts
Defaults == {0, 7}

\* a call store_int(key, value) of the one RuntimeStorage instance
StoreInt ==
    /\ \E key \in StoreKeys, value \in StoreValues :
          /\ args' = [fn |-> "store_int", key |-> key, value |-> value, default |-> 0]
          /\ LET st == store_int(cache[1], files, key, value)
             IN  /\ cache' = [cache EXCEPT ![1] = st.cache]
                 /\ files' = st.files
    /\ UNCHANGED <<gen, seq, fresh, sent, stored0, err, pc, ret>>
    /\ UNCHANGED profileVars
    /\ UNCHANGED deviceVars

\* a call load_int(key, default) of the same instance
LoadInt ==
    /\ \E key \in StoreKeys, default \in Defaults :
          /\ args' = [fn |-> "load_int", key |-> key, value |-> None, default |-> default]
          /\ LET loaded == load_int(cache[1], files, key, default)
             IN  /\ cache' = [cache EXCEPT ![1] = loaded.cache]
                 /\ ret' = loaded.value
    /\ UNCHANGED <<files, gen, seq, fresh, sent, stored0, err, pc>>
    /\ UNCHANGED profileVars
    /\ UNCHANGED deviceVars

NextStore == StoreInt \/ LoadInt

SpecStore == InitSeq /\ [][NextStore]_vars

\* ---- __init__.py: find_liquidctl_devices -----------------------------------------
\* bus classes loaded and devices a bus finds
MaxBuses == 2
MaxDevs == 2

\* the bus classes, named 1 .. MaxBuses; sorted(..., key=__name__) is their
\* ascending order
SortedBuses == [b \in 1 .. MaxBuses |-> b]
\* values of pick: None or an integer
Picks == {None} \cup { Some(n) : n \in (0 - 1) .. (MaxBuses * MaxDevs) }

\* the call find_liquidctl_devices(pick): found[b] is the number of devices
\* bus b's find_devices matches, device i of bus b is <<b, i>>; the
\* generator stands before device dev of bus bus
InitFind ==
    /\ \E found \in [1 .. MaxBuses -> 0 .. MaxDevs], pick \in Picks :
          finder = [found |-> found, pick |-> pick, bus |-> 1, dev |-> 1,
                    num |-> 0, seen |-> 0, out |-> <<>>, pc |-> "loop"]
    /\ usbdev = Absent
    /\ exporter = Absent
    /\ psu = Absent
    /\ EngineIdle
    /\ err = "none"
    /\ pc = "find"

\* the body of the inner loop with num counted before it is compared
OfferCountFirst(f, d) ==
    IF f.pick # None
    THEN IF f.num + 1 = f.pick[1]
         THEN [f EXCEPT !.out = Append(@, d), !.pc = "returned"]
         ELSE [f EXCEPT !.num = @ + 1]
    ELSE [f EXCEPT !.out = Append(@, d)]

\* the body of the inner loop for the device d
Offer(f, d) ==
    IF f.pick # None
    THEN IF f.num = f.pick[1]
         THEN [f EXCEPT !.out = Append(@, d), !.pc = "returned"]
         ELSE [f EXCEPT !.num = @ + 1]
    ELSE [f EXCEPT !.out = Append(@, d)]

\* the generator takes the next device of the bus at hand
FindDevice ==
    /\ pc = "find"
    /\ finder.pc = "loop"
    /\ finder.bus <= MaxBuses
    /\ finder.dev <= finder.found[SortedBuses[finder.bus]]
    /\ finder' = Offer([finder EXCEPT !.dev = @ + 1, !.seen = @ + 1],
                       <<SortedBuses[finder.bus], finder.dev>>)
    /\ UNCHANGED <<usbdev, exporter, psu, err, pc>>
    /\ UNCHANGED engineVars

\* the bus at hand has no more devices: the next bus, or the end
FindNextBus ==
    /\ pc = "find"
    /\ finder.pc = "loop"
    /\ finder.bus <= MaxBuses
    /\ finder.dev > finder.found[SortedBuses[finder.bus]]
    /\ finder' = [finder EXCEPT !.bus = @ + 1, !.dev = 1,
                                !.pc = IF finder.bus = MaxBuses THEN "returned" ELSE "loop"]
    /\ UNCHANGED <<usbdev, exporter, psu, err, pc>>
    /\ UNCHANGED engineVars

NextFind == FindDevice \/ FindNextBus

SpecFind == InitFind /\ [][NextFind]_vars

\* ---- driver_tree.py: PyUsbDevice -------------------------------------------------
\* calls of open() and close() on one PyUsbDevice
MaxCalls == 5

\* a PyUsbDevice after __init__ (attached is self._attached) with what it
\* stands on: the platform, whether the device has an active configuration
\* and whether the kernel driver is active on the interface; log keeps,
\* per call, what it was, whether it detached (open) or reattached (close)
\* the kernel driver, and the kernel driver's state before and after
InitUsb ==
    /\ \E linux \in BOOLEAN, configured \in BOOLEAN, active \in BOOLEAN :
          usbdev = [linux |-> linux, configured |-> configured, active |-> active,
                    attached |-> FALSE, log |-> <<>>]
    /\ finder = Absent
    /\ exporter = Absent
    /\ psu = Absent
    /\ EngineIdle
    /\ err = "none"
    /\ pc = "usb"

\* open(): set_configuration when there is no active configuration, then
\* detach_kernel_driver on Linux when the kernel driver is active
open(u) ==
    LET detach == u.linux /\ u.active
    IN  [u EXCEPT !.configured = TRUE,
                  !.active = IF detach THEN FALSE ELSE @,
                  !.attached = IF detach THEN TRUE ELSE @]

\* close() that leaves self._attached set
close_keep_flag(u) ==
    IF u.attached THEN [u EXCEPT !.active = TRUE] ELSE u

\* close(): release, then attach_kernel_driver when self._attached
close(u) ==
    IF u.attached THEN [u EXCEPT !.active = TRUE, !.attached = FALSE] ELSE u

\* the log entry of a call that took the device from u to v
Entry(op, u, v) ==
    [op |-> op, acted |-> u.active # v.active, before |-> u.active, after |-> v.active]

UsbOpen ==
    /\ pc = "usb"
    /\ Len(usbdev.log) < MaxCalls
    /\ LET v == open(usbdev)
       IN  usbdev' = [v EXCEPT !.log = Append(@, Entry("open", usbdev, v))]
    /\ UNCHANGED <<finder, exporter, psu, err, pc>>
    /\ UNCHANGED engineVars

UsbClose ==
    /\ pc = "usb"
    /\ Len(usbdev.log) < MaxCalls
    /\ LET v == close(usbdev)
       IN  usbdev' = [v EXCEPT !.log = Append(@, Entry("close", usbdev, v))]
    /\ UNCHANGED <<finder, exporter, psu, err, pc>>
    /\ UNCHANGED engineVars

NextUsb == UsbOpen \/ UsbClose

SpecUsb == InitUsb /\ [][NextUsb]_vars

\* ---- export.py: _run_export_loop ----------------------------------------------------
\* devices exported and rounds of the `while True` loop before the user
\* interrupts
MaxExported == 2
MaxRounds == 2

\* _run_export_loop(devices, ...) with devices 1 .. devs, before its first
\* statement.  status is the local variable `status`: None while unbound,
\* else Some(<<d, r>>), the status read from device d in round r.  last[d]
\* is the last status read from d; updates lists the calls of update;
\* connected, disconnected and deinited are the devices on which connect()
\* returned and disconnect() and deinit() were called; error names what
\* ended the function
InitExport ==
    /\ \E devs \in 1 .. MaxExported :
          exporter = [devs |-> devs, pc |-> "connect", i |-> 1, round |-> 0,
                      infos |-> <<>>, status |-> None,
                      last |-> [d \in 1 .. devs |-> None],
                      updates |-> <<>>, connected |-> {}, disconnected |-> {},
                      deinited |-> {}, error |-> "none"]
    /\ finder = Absent
    /\ usbdev = Absent
    /\ psu = Absent
    /\ EngineIdle
    /\ err = "none"
    /\ pc = "export"

\* an exception leaves the function at once: the statements before `try`
Raised(e, error) == [e EXCEPT !.pc = "exited", !.error = error]

\* an exception inside `try`: the handler, then `finally`
Finally(e, error) == [e EXCEPT !.pc = "disconnect", !.i = 1, !.error = error]

\* `for dev, devinfos in infos` of the loop goes on with the next device, or
\* to time.sleep
NextRead(e) ==
    IF e.i = Len(e.infos) THEN [e EXCEPT !.pc = "sleep"] ELSE [e EXCEPT !.i = @ + 1]

\* `for dev, devinfos in infos` of `finally` goes on with the next device,
\* or the function ends
NextCleanup(e) ==
    IF e.i = Len(e.infos) THEN [e EXCEPT !.pc = "exited"]
    ELSE [e EXCEPT !.pc = "disconnect", !.i = @ + 1]

\* dev.connect(**opts) of device i returns or raises
ExportConnect ==
    /\ pc = "export"
    /\ exporter.pc = "connect"
    /\ \E ok \in BOOLEAN :
          exporter' = IF ok
                      THEN [exporter EXCEPT !.connected = @ \cup {exporter.i},
                                            !.pc = "init"]
                      ELSE Raised(exporter, "connect")
    /\ UNCHANGED <<finder, usbdev, psu, err, pc>>
    /\ UNCHANGED engineVars

\* init(dev, **opts) returns, and the device joins infos, or raises
ExportInit ==
    /\ pc = "export"
    /\ exporter.pc = "init"
    /\ \E ok \in BOOLEAN :
          exporter' = IF ok
                      THEN [exporter EXCEPT
                               !.infos = Append(@, exporter.i),
                               !.i = IF exporter.i = exporter.devs THEN 1 ELSE @ + 1,
                               !.pc = IF exporter.i = exporter.devs THEN "post_init"
                                      ELSE "connect"]
                      ELSE Raised(exporter, "init")
    /\ UNCHANGED <<finder, usbdev, psu, err, pc>>
    /\ UNCHANGED engineVars

\* post_init() returns or raises
ExportPostInit ==
    /\ pc = "export"
    /\ exporter.pc = "post_init"
    /\ \E ok \in BOOLEAN :
          exporter' = IF ok THEN [exporter EXCEPT !.pc = "read", !.i = 1, !.round = 1]
                      ELSE Raised(exporter, "post_init")
    /\ UNCHANGED <<finder, usbdev, psu, err, pc>>
    /\ UNCHANGED engineVars

\* the body of the inner loop for the device infos[i]: get_status returns,
\* raises USBError, raises something else, or the user interrupts;
\* update(dev, devinfos, status) reads `status`, which is unbound when no
\* get_status has returned yet (UnboundLocalError)
ExportRead ==
    /\ pc = "export"
    /\ exporter.pc = "read"
    /\ \E outcome \in {"ok", "USBError", "Exception", "KeyboardInterrupt"} :
          LET d     == exporter.infos[exporter.i]
              read  == Some(<<d, exporter.round>>)
          IN  exporter' =
                CASE outcome = "ok" ->
                       NextRead([exporter EXCEPT
                                   !.status = read,
                                   !.last[d] = read,
                                   !.updates = Append(@, [dev |-> d, status |-> read])])
                  [] outcome = "USBError" ->
                       IF exporter.status = None
                       THEN Finally(exporter, "UnboundLocalError")
                       ELSE NextRead([exporter EXCEPT
                                        !.updates = Append(@, [dev |-> d,
                                                               status |-> exporter.status])])
                  [] OTHER -> Finally(exporter, outcome)
    /\ UNCHANGED <<finder, usbdev, psu, err, pc>>
    /\ UNCHANGED engineVars

\* time.sleep(update_interval) returns, or the user interrupts it
ExportSleep ==
    /\ pc = "export"
    /\ exporter.pc = "sleep"
    /\ \E interrupted \in BOOLEAN :
          /\ interrupted \/ exporter.round < MaxRounds
          /\ exporter' = IF interrupted THEN Finally(exporter, "KeyboardInterrupt")
                         ELSE [exporter EXCEPT !.pc = "read", !.i = 1, !.round = @ + 1]
    /\ UNCHANGED <<finder, usbdev, psu, err, pc>>
    /\ UNCHANGED engineVars

\* `finally`: dev.disconnect(**opts) of infos[i] returns or raises; when it
\* raises, deinit is skipped
ExportDisconnect ==
    /\ pc = "export"
    /\ exporter.pc = "disconnect"
    /\ \E ok \in BOOLEAN :
          LET e == [exporter EXCEPT !.disconnected = @ \cup {exporter.infos[exporter.i]}]
          IN  exporter' = IF ok THEN [e EXCEPT !.pc = "deinit"] ELSE NextCleanup(e)
    /\ UNCHANGED <<finder, usbdev, psu, err, pc>>
    /\ UNCHANGED engineVars

\* `finally`: deinit(dev, devinfos) of infos[i]; an exception is logged
ExportDeinit ==
    /\ pc = "export"
    /\ exporter.pc = "deinit"
    /\ exporter' = NextCleanup([exporter EXCEPT
                                   !.deinited = @ \cup {exporter.infos[exporter.i]}])
    /\ UNCHANGED <<finder, usbdev, psu, err, pc>>
    /\ UNCHANGED engineVars

NextExport ==
    \/ ExportConnect \/ ExportInit \/ ExportPostInit
    \/ ExportRead \/ ExportSleep
    \/ ExportDisconnect \/ ExportDeinit

SpecExport == InitExport /\ [][NextExport]_vars

\* ---- corsair_hxi.py: CorsairHxi ----------------------------------------------------
\* duties and channels set_fixed_speed is called with
HxiDuties == {0 - 5, 0, 42, 84, 100, 120}
HxiChannels == {"fan", "pump"}

\* the power supply: its fan control mode, its +12V OCP mode and its fan
\* duty; call is the last call of the driver, prev the name of the call
\* before it, before the two modes when the last call was made, and writes
\* the reports _exec and _write wrote during it, in order
InitHxi ==
    /\ \E fan \in {"HARDWARE", "SOFTWARE"}, ocp \in {"SINGLE_RAIL", "MULTI_RAIL"} :
          psu = [fan |-> fan, ocp |-> ocp, duty |-> 0,
                 call |-> [fn |-> "none"], prev |-> "none",
                 before |-> [fan |-> fan, ocp |-> ocp],
                 writes |-> <<>>]
    /\ finder = Absent
    /\ usbdev = Absent
    /\ exporter = Absent
    /\ EngineIdle
    /\ err = "none"
    /\ pc = "hxi"

\* _exec(writebit, command, data): the report is written and the device, on
\* a WRITE, takes the value
exec(p, writebit, command, data) ==
    LET q == [p EXCEPT !.writes = Append(@, [bit |-> writebit, command |-> command,
                                             data |-> data])]
    IN  IF writebit # "WRITE" THEN q
        ELSE CASE command = "FAN_CONTROL_MODE" -> [q EXCEPT !.fan = data]
               [] command = "12V_OCP_MODE" -> [q EXCEPT !.ocp = data]
               [] command = "FAN_COMMAND_1" -> [q EXCEPT !.duty = data]
               [] OTHER -> q

\* set_fixed_speed writing the duty before the fan control mode
hxi_set_fixed_speed_duty_first(p, channel, d) ==
    LET duty0 == clamp(d, 0, 100)
        p1    == exec(p, "WRITE", "FAN_COMMAND_1", duty0)
    IN  exec(p1, "WRITE", "FAN_CONTROL_MODE", "SOFTWARE")

\* CorsairHxi.set_fixed_speed(channel, duty); _MIN_FAN_DUTY is 0
hxi_set_fixed_speed(p, channel, d) ==
    LET duty0 == clamp(d, 0, 100)
        p1    == exec(p, "WRITE", "FAN_CONTROL_MODE", "SOFTWARE")
    IN  exec(p1, "WRITE", "FAN_COMMAND_1", duty0)

\* initialize that leaves the fan control mode as it is
hxi_initialize_no_fan_reset(p, single_12v_ocp) ==
    LET p1   == [p EXCEPT !.writes = Append(@, [bit |-> "raw", command |-> "fe 03",
                                                data |-> "none"])]
        mode == IF single_12v_ocp THEN "SINGLE_RAIL" ELSE "MULTI_RAIL"
        p2   == exec(p1, "READ", "12V_OCP_MODE", "none")
    IN  IF mode # p2.ocp THEN exec(p2, "WRITE", "12V_OCP_MODE", mode) ELSE p2

\* CorsairHxi.initialize(single_12v_ocp): _write([0xfe, 0x03]), then each of
\* the two modes is read and written when it differs
hxi_initialize(p, single_12v_ocp) ==
    LET p1   == [p EXCEPT !.writes = Append(@, [bit |-> "raw", command |-> "fe 03",
                                                data |-> "none"])]
        mode == IF single_12v_ocp THEN "SINGLE_RAIL" ELSE "MULTI_RAIL"
        p2   == exec(p1, "READ", "12V_OCP_MODE", "none")
        p3   == IF mode # p2.ocp THEN exec(p2, "WRITE", "12V_OCP_MODE", mode) ELSE p2
        p4   == exec(p3, "READ", "FAN_CONTROL_MODE", "none")
    IN  IF p4.fan # "HARDWARE" THEN exec(p4, "WRITE", "FAN_CONTROL_MODE", "HARDWARE")
        ELSE p4

\* the power supply as a call finds it
AtCall(call) ==
    [psu EXCEPT !.call = call, !.prev = psu.call.fn,
                !.before = [fan |-> psu.fan, ocp |-> psu.ocp], !.writes = <<>>]

HxiInitialize ==
    /\ pc = "hxi"
    /\ \E single_12v_ocp \in BOOLEAN :
          psu' = hxi_initialize(AtCall([fn |-> "initialize",
                                        single_12v_ocp |-> single_12v_ocp]),
                                single_12v_ocp)
    /\ UNCHANGED <<finder, usbdev, exporter, err, pc>>
    /\ UNCHANGED engineVars

HxiSetFixedSpeed ==
    /\ pc = "hxi"
    /\ \E channel \in HxiChannels, d \in HxiDuties :
          psu' = hxi_set_fixed_speed(AtCall([fn |-> "set_fixed_speed",
                                             channel |-> channel, duty |-> d]),
                                     channel, d)
    /\ UNCHANGED <<finder, usbdev, exporter, err, pc>>
    /\ UNCHANGED engineVars

NextHxi == HxiInitialize \/ HxiSetFixedSpeed

SpecHxi == InitHxi /\ [][NextHxi]_vars

TypeOK ==
    /\ profile \in Profiles
    /\ critx \in Crits
    /\ x \in Queries \cup {0}
    /\ err \in {"none", "IndexError"}
    /\ pc \in {"input", "normalized", "interpolated", "interpolated_raw"}
    /\ args = NoArgs

\* ---- properties of normalize_profile --------------------------------------

NonDecreasingY(c) == \A i \in 1 .. (Len(c) - 1) : c[i][2] <= c[i + 1][2]
StrictlyIncreasingX(c) == \A i \in 1 .. (Len(c) - 1) : c[i][1] < c[i + 1][1]
HasDuplicateX(c) == \E i, j \in 1 .. Len(c) : i # j /\ c[i][1] = c[j][1]
Last(c) == c[Len(c)]

\* C1: the duties of normalize_profile(P, critx) are non-decreasing: every
\* pair of adjacent output points satisfies y1 <= y2.
C1_DutiesNonDecreasing ==
    pc = "normalized" => NonDecreasingY(mono)

\* C2: the x values of normalize_profile(P, critx) are strictly increasing:
\* every adjacent pair of output points satisfies x1 < x2, so no x occurs
\* twice.
C2_XStrictlyIncreasing ==
    pc = "normalized" => StrictlyIncreasingX(mono)

\* C2's case: an unsorted profile with a repeated x has been normalized to a
\* curve of several points
C2_Witness ==
    /\ pc = "normalized"
    /\ HasDuplicateX(profile)
    /\ ~StrictlyIncreasingX(profile)
    /\ Len(mono) >= 3

\* C3: normalization is idempotent: normalizing the normalized curve again,
\* with the same critx, returns it unchanged.
C3_Idempotent ==
    pc = "normalized" => normalize_profile(mono, critx) = mono

\* C4: the last point of normalize_profile(P, critx) has y = 100.
C4_LastDutyIs100 ==
    pc = "normalized" => Last(mono)[2] = 100

\* C5: the x of the last point of normalize_profile(P, critx) is <= critx.
C5_LastXAtMostCritx ==
    pc = "normalized" => Last(mono)[1] <= critx

\* C6: for every query temperature x >= critx, interpolating the normalized
\* curve gives duty 100.
C6_FailSafeEndToEnd ==
    (pc = "interpolated" /\ x >= critx) => duty = 100

\* C7: at most one point of normalize_profile(P, critx) has y = 100 and it
\* is the last point; when the first point already has y = 100 the output is
\* that one point.
C7_Only100IsLast ==
    pc = "normalized" =>
        \A i \in 1 .. Len(mono) : mono[i][2] = 100 => i = Len(mono)

\* C8: normalize_profile computes the curve of the specified algorithm:
\* sort by (x ascending, y descending), keep the first point, then for each
\* later point skip it if its x equals the last KEPT point's x, raise its y
\* to the last KEPT point's y if lower, append it, and stop after appending
\* a point with y = 100.
C8_EqualsSpecifiedAlgorithm ==
    LET RECURSIVE Walk(_, _, _)
        Walk(sorted, i, kept) ==
            IF i > Len(sorted) THEN kept
            ELSE LET cand == sorted[i]
                     last == kept[Len(kept)]
                     y2   == IF cand[2] < last[2] THEN last[2] ELSE cand[2]
                 IN  IF cand[1] = last[1] THEN Walk(sorted, i + 1, kept)
                     ELSE IF y2 = 100 THEN Append(kept, <<cand[1], y2>>)
                     ELSE Walk(sorted, i + 1, Append(kept, <<cand[1], y2>>))
        working == Sorted(profile \o << <<critx, 100>> >>)
    IN  pc = "normalized" => mono = Walk(working, 2, <<working[1]>>)

\* C9: normalizing the empty profile returns exactly the one-point curve
\* [(critx, 100)].
C9_EmptyProfile ==
    (pc = "normalized" /\ profile = <<>>) => mono = << <<critx, 100>> >>

\* C9's case: the empty profile has been normalized
C9_Witness ==
    pc = "normalized" /\ profile = <<>> /\ Len(mono) = 1

\* ---- properties of interpolate_profile ------------------------------------

\* C10: on a non-empty curve with strictly increasing x, interpolation
\* extrapolates flat: it returns the first point's y for x at or below the
\* first point's x, and the last point's y for x at or above the last point's
\* x.
C10_FlatExtrapolation ==
    (/\ pc \in {"interpolated", "interpolated_raw"}
     /\ Curve # <<>>
     /\ StrictlyIncreasingX(Curve)) =>
        /\ x <= Curve[1][1] => (err = "none" /\ duty = Curve[1][2])
        /\ x >= Last(Curve)[1] => (err = "none" /\ duty = Last(Curve)[2])

\* C10's case: a query below a curve of several points whose first and last
\* duties differ
C10_Witness ==
    /\ pc = "interpolated_raw"
    /\ Len(profile) >= 3
    /\ StrictlyIncreasingX(profile)
    /\ x < profile[1][1]
    /\ duty = profile[1][2]
    /\ profile[1][2] # Last(profile)[2]
    /\ profile[1][2] # profile[2][2]

\* C11: on a non-empty curve with strictly increasing x, interpolation at the
\* x of a point of the curve returns that point's y.
C11_ExactMatch ==
    (/\ pc \in {"interpolated", "interpolated_raw"}
     /\ Curve # <<>>
     /\ StrictlyIncreasingX(Curve)) =>
        \A k \in 1 .. Len(Curve) :
            Curve[k][1] = x => (err = "none" /\ duty = Curve[k][2])

\* C11's case: the query is the x of an inner point of a curve of three
\* points whose duty differs from both neighbours' and from their mean
C11_Witness ==
    /\ pc = "interpolated_raw"
    /\ Len(profile) = 3
    /\ StrictlyIncreasingX(profile)
    /\ x = profile[2][1]
    /\ duty = profile[2][2]
    /\ profile[2][2] > profile[1][2]
    /\ profile[2][2] > profile[3][2]

\* the bracketing points of q on a curve with strictly increasing x: the last
\* point at or below q (the first point when there is none) and the first
\* point at or above q (the last point when there is none)
LowerOf(c, q) ==
    IF \E k \in 1 .. Len(c) : c[k][1] <= q
    THEN c[CHOOSE k \in 1 .. Len(c) :
               c[k][1] <= q /\ \A m \in 1 .. Len(c) : c[m][1] <= q => m <= k]
    ELSE c[1]
UpperOf(c, q) ==
    IF \E k \in 1 .. Len(c) : c[k][1] >= q
    THEN c[CHOOSE k \in 1 .. Len(c) :
               c[k][1] >= q /\ \A m \in 1 .. Len(c) : c[m][1] >= q => m >= k]
    ELSE Last(c)

WellFormed(c) ==
    /\ c # <<>>
    /\ StrictlyIncreasingX(c)
    /\ NonDecreasingY(c)
    /\ \A k \in 1 .. Len(c) : c[k][2] \in 0 .. 100

\* C12: on a curve with strictly increasing x, non-decreasing y and all y in
\* 0..100, the interpolated duty is an integer in 0..100 between the y of the
\* bracketing lower point and the y of the bracketing upper point.
C12_DutyInRange ==
    (pc \in {"interpolated", "interpolated_raw"} /\ WellFormed(Curve)) =>
        /\ err = "none"
        /\ duty \in 0 .. 100
        /\ LowerOf(Curve, x)[2] <= duty
        /\ duty <= UpperOf(Curve, x)[2]

\* C12's case: a query strictly between two points of a well-formed curve,
\* with a duty strictly between theirs
C12_Witness ==
    /\ pc \in {"interpolated", "interpolated_raw"}
    /\ WellFormed(Curve)
    /\ LowerOf(Curve, x)[1] < x
    /\ x < UpperOf(Curve, x)[1]
    /\ LowerOf(Curve, x)[2] < duty
    /\ duty < UpperOf(Curve, x)[2]

\* the integer nearest to the rational n / d (d > 0), an exact half going to
\* the even integer
RoundHalfEven(n, d) ==
    LET fl  == IF n >= 0 THEN n \div d ELSE 0 - ((0 - n + d - 1) \div d)
        rem == n - fl * d
    IN  IF 2 * rem < d THEN fl
        ELSE IF 2 * rem > d THEN fl + 1
        ELSE IF fl % 2 = 0 THEN fl ELSE fl + 1

\* C13: strictly between two adjacent curve points lower and upper,
\* interpolation returns lower.y + (x - lower.x) * (upper.y - lower.y) /
\* (upper.x - lower.x) rounded to the nearest integer, an exact half rounded
\* to the even integer.
C13_RoundsHalfToEven ==
    (/\ pc \in {"interpolated", "interpolated_raw"}
     /\ Curve # <<>>
     /\ StrictlyIncreasingX(Curve)) =>
        \A k \in 1 .. (Len(Curve) - 1) :
            (Curve[k][1] < x /\ x < Curve[k + 1][1]) =>
                duty = RoundHalfEven(
                           Curve[k][2] * (Curve[k + 1][1] - Curve[k][1])
                             + (x - Curve[k][1]) * (Curve[k + 1][2] - Curve[k][2]),
                           Curve[k + 1][1] - Curve[k][1])

\* C14: interpolate_profile called with an empty curve fails with an error
\* for every query x; it returns no duty.
C14_EmptyCurveFails ==
    (pc \in {"interpolated", "interpolated_raw"} /\ Curve = <<>>) =>
        (err = "IndexError" /\ duty = 0)

\* C14's case: interpolate_profile has been called with the empty curve, for
\* a query other than the initial x
C14_Witness ==
    pc = "interpolated_raw" /\ profile = <<>> /\ x > 0 /\ err = "IndexError"

\* ---- properties of the numeric helpers ---------------------------------------

Returned(fn) == pc = "returned" /\ args.fn = fn

\* C15: fraction_of_byte fails with an error when both ratio and percentage
\* are supplied; it returns no value then.
C15_BothGivenFails ==
    (Returned("fraction_of_byte") /\ args.ratio # None /\ args.percentage # None)
        => err = "ValueError"

\* the ratio the call results in lies in [0, 1]: percentage / 100 when a
\* percentage is given, else the ratio given
ResultingRatioInRange ==
    IF args.percentage # None
    THEN 0 <= args.percentage[1] /\ args.percentage[1] <= 100
    ELSE /\ args.ratio # None
         /\ 0 <= args.ratio[1]
         /\ args.ratio[1] <= RatioDen

\* C16: fraction_of_byte fails with an error when neither ratio nor
\* percentage is supplied and when the resulting ratio is below 0 or above 1;
\* it returns a value only when the resulting ratio is in [0, 1].
C16_FailsOutsideUnitInterval ==
    Returned("fraction_of_byte") =>
        /\ err \in {"none", "ValueError"}
        /\ err = "none" <=> ResultingRatioInRange
        /\ err = "ValueError" => ret = 0

\* C16's case: a percentage just above 100 and no ratio has been rejected
C16_Witness ==
    /\ Returned("fraction_of_byte")
    /\ args.ratio = None
    /\ args.percentage = Some(101)
    /\ err = "ValueError"

\* C17: for every integer percentage p in 0..100, fraction_of_byte(percentage
\* = p) is p * 255 / 100 rounded to the nearest integer, an integer in 0..255,
\* with 0 -> 0, 100 -> 255, 20 -> 51, and it does not decrease with p.
C17_PercentageToByte ==
    (/\ Returned("fraction_of_byte")
     /\ args.ratio = None
     /\ args.percentage # None
     /\ args.percentage[1] \in 0 .. 100) =>
        LET p == args.percentage[1]
        IN  /\ err = "none"
            /\ ret = RoundHalfEven(p * 255, 100)
            /\ ret \in 0 .. 255
            /\ p = 0 => ret = 0
            /\ p = 100 => ret = 255
            /\ p = 20 => ret = 51
            /\ p > 0 => fraction_of_byte(None, Some(p - 1)).val <= ret

\* C17's case: 10 %, where p * 255 / 100 = 25.5 is an exact half
C17_Witness ==
    /\ Returned("fraction_of_byte")
    /\ args.ratio = None
    /\ args.percentage = Some(10)
    /\ ret = 26

\* C18: for integers with min <= max, clamp(value, min, max) is value when
\* min <= value <= max, min when value < min and max when value > max; the
\* result is inside [min, max], no error is raised, and clamping the result
\* again changes nothing.
C18_Clamp ==
    (Returned("clamp") /\ args.clampmin <= args.clampmax) =>
        /\ err = "none"
        /\ (args.clampmin <= args.value /\ args.value <= args.clampmax)
               => ret = args.value
        /\ args.value < args.clampmin => ret = args.clampmin
        /\ args.value > args.clampmax => ret = args.clampmax
        /\ args.clampmin <= ret /\ ret <= args.clampmax
        /\ clamp(ret, args.clampmin, args.clampmax) = ret

\* C18's case: a value above a proper interval has been clamped to its end
C18_Witness ==
    /\ Returned("clamp")
    /\ args.clampmin < args.clampmax
    /\ args.value > args.clampmax
    /\ ret = args.clampmax

\* ---- normalization and interpolation together ---------------------------------

\* C25: normalization never lowers a requested duty: for every point (x, y)
\* of the profile given, the normalized curve interpolated at x is at least y.
C25_NeverLowersRequestedDuty ==
    pc = "normalized" =>
        \A i \in 1 .. Len(profile) :
            interpolate_profile(mono, profile[i][1]) >= profile[i][2]

\* C25's case: two points share an x, and the curve answers that x with the
\* higher of the two duties
C25_Witness ==
    /\ pc = "normalized"
    /\ \E i, j \in 1 .. Len(profile) :
          /\ profile[i][1] = profile[j][1]
          /\ profile[i][2] < profile[j][2]
          /\ profile[i][1] < critx
          /\ interpolate_profile(mono, profile[i][1]) = profile[j][2]

\* ---- properties of the sequence numbers ---------------------------------------

\* the sequence number a report carries in bits 3..7 of its first byte
SeqOf(report) == report.byte2 \div 8

\* C19: the commands of one driver carry consecutive sequence numbers in the
\* cycle 1..31: with s the stored sequence at the first command (0 when
\* absent or cleared), the k-th command carries ((s + k - 1) mod 31) + 1 in
\* bits 3..7 of its first byte, which is in 1..31 and fits one byte, also
\* across invocations.
C19_ConsecutiveSequence ==
    pc = "driver" =>
        /\ err = "none"
        /\ \A k \in 1 .. Len(sent[1]) :
              /\ sent[1][k].byte2 \in 0 .. 255
              /\ sent[1][k].byte2 % 8 = FeatureCooling
              /\ SeqOf(sent[1][k]) \in 1 .. 31
              /\ SeqOf(sent[1][k]) = ((stored0 + k - 1) % 31) + 1

\* C19's case: from a stored 30 the driver sent 31 (byte 248), then, in a
\* new invocation, 1
C19_Witness ==
    /\ pc = "driver"
    /\ stored0 = 30
    /\ Len(sent[1]) = 2
    /\ sent[1][1].byte2 = 248 /\ sent[1][1].first
    /\ SeqOf(sent[1][2]) = 1 /\ sent[1][2].first

\* C20: with two processes over the same stored key, a process that has
\* cached the key never observes the other's stores: within one invocation
\* its numbers follow each other in the cycle whatever the other process
\* stored (and so two processes can yield the same number).
C20_CachedKeyIgnoresOtherStores ==
    pc = "driver" =>
        \A p \in Procs : \A k \in 2 .. Len(sent[p]) :
            ~sent[p][k].first =>
                SeqOf(sent[p][k]) = NextSequence(SeqOf(sent[p][k - 1]))

\* C20's case: both processes loaded the stored 30 before either stored, so
\* the first command of each carries 31; then process 1 went on to 1 while
\* process 2 had stored 31
C20_Witness ==
    /\ pc = "driver"
    /\ stored0 = 30
    /\ Len(sent[1]) = 2 /\ Len(sent[2]) = 1
    /\ SeqOf(sent[1][1]) = 31 /\ SeqOf(sent[2][1]) = 31
    /\ SeqOf(sent[1][2]) = 1
    /\ ~sent[1][2].first
    /\ files[WriteDir]["sequence"].text = Some(1)

\* ---- properties of the Platinum driver's set_fixed_speed ----------------------

\* the fans a channel names
FansOf(channel) ==
    CASE Lower(channel) = "fan" -> {1, 2}
      [] Lower(channel) = "fan1" -> {1}
      [] Lower(channel) = "fan2" -> {2}
      [] OTHER -> {}

\* the key of a fan's stored duty
DutyKey(fan) == IF fan = 1 THEN "fan1_duty" ELSE "fan2_duty"

\* C21: after set_fixed_speed with channel 'fan', 'fan1' or 'fan2' the call
\* has succeeded and the last set-cooling report encodes, for each fan, the
\* duty stored for it (100 when never stored), the stored duty of each fan
\* the channel names being the duty of this call.
C21_LastCoolingEncodesDuties ==
    (pc = "driver" /\ args.fn = "set_fixed_speed" /\ FansOf(args.channel) # {}) =>
        /\ err = "none"
        /\ \E k \in 1 .. Len(sent[1]) :
              /\ sent[1][k].byte3 = CmdSetCooling
              /\ \A j \in (k + 1) .. Len(sent[1]) : sent[1][j].byte3 # CmdSetCooling
              /\ \A fan \in {1, 2} :
                    LET stored == load_int(cache[1], files, DutyKey(fan), 100).value
                    IN  /\ sent[1][k].data[fan] = DutyByte(clamp(stored, 0, 100))
                        /\ fan \in FansOf(args.channel) =>
                              stored = clamp(args.duty, 0, 100)

\* C22: set_fixed_speed with a channel other than 'fan', 'fan1' or 'fan2'
\* fails with an error and changes nothing: no duty is stored, no report is
\* written and no sequence number is consumed.
C22_UnknownChannelChangesNothing ==
    [][\A channel \in Channels, d \in FanDuties :
          (FansOf(channel) = {} /\ SetFixedSpeedCall(1, channel, d)) =>
              (err' # "none" /\ UNCHANGED storageVars)]_vars

\* C22's case: after two status reads, set_fixed_speed('pump', 42) has raised
C22_Witness ==
    /\ pc = "driver"
    /\ args.fn = "set_fixed_speed"
    /\ args.channel = "pump"
    /\ args.duty = 42
    /\ err = "ValueError"
    /\ Len(sent[1]) = 2
    /\ files[WriteDir]["sequence"].text = Some(SeqOf(sent[1][2]))

\* ---- properties of RuntimeStorage ----------------------------------------------

\* C30: after store_int(key, v) the next load_int(key, default) of the same
\* instance returns v, and default when v is None, whatever the fallback
\* directory or the cache held for the key before; load_int of a key with no
\* file in any directory returns default.
C30_StoreLoadRoundTrip ==
    pc = "driver" =>
        /\ args.fn = "store_int" =>
              \A default \in Defaults :
                  load_int(cache[1], files, args.key, default).value =
                      IF args.value = None THEN default ELSE args.value[1]
        /\ (args.fn = "load_int" /\ \A dir \in {1, 2} : ~files[dir][args.key].isfile) =>
              ret = args.default

\* C30's case: load_int returned the 40 of the fallback directory, which is
\* now cached, and store_int('sequence', 31) came after it
C30_Witness ==
    /\ pc = "driver"
    /\ args.fn = "store_int"
    /\ args.key = "sequence"
    /\ args.value = Some(31)
    /\ ret = 40
    /\ files[2]["sequence"] = FileOf(Some(40))
    /\ files[WriteDir]["sequence"] = FileOf(Some(31))

\* ---- properties of find_liquidctl_devices --------------------------------------

\* the matched devices in enumeration order: bus by bus, each in its order
RECURSIVE Matched(_, _)
Matched(found, b) ==
    IF b > MaxBuses THEN <<>>
    ELSE [i \in 1 .. found[b] |-> <<b, i>>] \o Matched(found, b + 1)

\* C23: with pick = n at most one device is yielded; when the generator has
\* returned it yielded exactly the (n + 1)-th matched device and took no
\* device after it, or nothing when fewer than n + 1 devices match; without
\* pick it yielded every matched device once, in enumeration order.
C23_PickYieldsNth ==
    pc = "find" =>
        LET all == Matched(finder.found, 1)
        IN  /\ finder.pick # None => Len(finder.out) <= 1
            /\ finder.pc = "returned" =>
                  IF finder.pick = None THEN finder.out = all
                  ELSE IF finder.pick[1] >= 0 /\ finder.pick[1] < Len(all)
                       THEN /\ finder.out = <<all[finder.pick[1] + 1]>>
                            /\ finder.seen = finder.pick[1] + 1
                       ELSE finder.out = <<>>

\* C23's case: pick = 2 with two devices on each bus yields the first device
\* of the second bus and leaves the fourth device alone
C23_Witness ==
    /\ pc = "find"
    /\ finder.pc = "returned"
    /\ finder.pick = Some(2)
    /\ finder.found[1] = 2 /\ finder.found[2] = 2
    /\ finder.out = << <<2, 1>> >>
    /\ finder.seen = 3

\* ---- properties of PyUsbDevice ----------------------------------------------------

\* the first call of the run of open() calls that ends right before call k
\* (k itself when call k - 1 is not an open)
RECURSIVE RunStart(_, _)
RunStart(log, k) ==
    IF k > 1 /\ log[k - 1].op = "open" THEN RunStart(log, k - 1) ELSE k

\* C24 as stated: a close() right after an open() reattaches the kernel
\* driver if and only if that open() detached it, and leaves the kernel
\* driver active exactly when it was active before that open(); a close()
\* right after a close() does not reattach.
C24_CloseUndoesPrecedingOpen ==
    pc = "usb" =>
        \A k \in 2 .. Len(usbdev.log) :
            usbdev.log[k].op = "close" =>
                IF usbdev.log[k - 1].op = "open"
                THEN /\ usbdev.log[k].acted = usbdev.log[k - 1].acted
                     /\ usbdev.log[k].after = usbdev.log[k - 1].before
                ELSE ~usbdev.log[k].acted

\* C24, amended: a close() reattaches the kernel driver if and only if one of
\* the open() calls since the previous close() (or since construction)
\* detached it, and leaves the kernel driver active exactly when it was
\* active before the first of those open() calls; a close() with no open()
\* since the previous close() changes nothing.
C24_CloseUndoesOpensSinceLastClose ==
    pc = "usb" =>
        \A k \in 1 .. Len(usbdev.log) :
            usbdev.log[k].op = "close" =>
                LET j == RunStart(usbdev.log, k)
                IN  /\ usbdev.log[k].acted =
                          (\E i \in j .. (k - 1) : usbdev.log[i].acted)
                    /\ usbdev.log[k].after = usbdev.log[j].before
                    /\ ~usbdev.attached \/ k < Len(usbdev.log)

\* C24's case: open() detached the kernel driver, close() reattached it and
\* a second close() left it alone
C24_Witness ==
    /\ pc = "usb"
    /\ Len(usbdev.log) = 3
    /\ usbdev.log[1].op = "open" /\ usbdev.log[1].acted
    /\ usbdev.log[2].op = "close" /\ usbdev.log[2].acted
    /\ usbdev.log[3].op = "close" /\ ~usbdev.log[3].acted
    /\ usbdev.active

\* ---- properties of _run_export_loop ------------------------------------------------

\* C26: when get_status raises a USB error the loop goes on: the device is
\* updated with a status read from that same device, never with one read
\* from another device, and a USB error on a first read does not end the
\* export.
C26_StaleStatusIsOwnStatus ==
    pc = "export" =>
        /\ \A k \in 1 .. Len(exporter.updates) :
              exporter.updates[k].status[1][1] = exporter.updates[k].dev
        /\ exporter.error # "UnboundLocalError"

\* C27: when the function has exited, disconnect() was called on every
\* device on which connect() succeeded, and deinit() on every device that
\* is de-initialised after it.
C27_ConnectedAreCleanedUp ==
    (pc = "export" /\ exporter.pc = "exited") =>
        /\ exporter.connected \subseteq exporter.disconnected
        /\ exporter.deinited \subseteq exporter.disconnected

\* ---- properties of the Corsair HXi driver --------------------------------------------

\* the positions of the WRITE reports of a command in the reports of the
\* last call
WritesOf(command) ==
    { k \in 1 .. Len(psu.writes) :
        psu.writes[k].bit = "WRITE" /\ psu.writes[k].command = command }

\* C28: set_fixed_speed writes the fan duty exactly once, the duty written is
\* the requested duty clamped into 0..100, fan control mode SOFTWARE is
\* written before it, and afterwards the device is in software fan control
\* mode whatever the mode before.
C28_SoftwareModeBeforeDuty ==
    (pc = "hxi" /\ psu.call.fn = "set_fixed_speed") =>
        /\ \E k \in WritesOf("FAN_COMMAND_1") :
              /\ WritesOf("FAN_COMMAND_1") = {k}
              /\ psu.writes[k].data = clamp(psu.call.duty, 0, 100)
              /\ psu.writes[k].data \in 0 .. 100
              /\ \E j \in WritesOf("FAN_CONTROL_MODE") :
                    j < k /\ psu.writes[j].data = "SOFTWARE"
        /\ psu.fan = "SOFTWARE"
        /\ psu.duty = clamp(psu.call.duty, 0, 100)

\* C28's case: the device was in hardware mode and 120 was requested
C28_Witness ==
    /\ pc = "hxi"
    /\ psu.call.fn = "set_fixed_speed"
    /\ psu.call.duty = 120
    /\ psu.before.fan = "HARDWARE"
    /\ psu.fan = "SOFTWARE"
    /\ psu.duty = 100

\* C29: after initialize(single_12v_ocp) the device is in fan control mode
\* HARDWARE and in +12V OCP mode SINGLE_RAIL when single_12v_ocp, else
\* MULTI_RAIL, whatever the modes before; a mode is written only when it
\* differed from the one the device had.
C29_InitializeSetsModes ==
    (pc = "hxi" /\ psu.call.fn = "initialize") =>
        LET mode == IF psu.call.single_12v_ocp THEN "SINGLE_RAIL" ELSE "MULTI_RAIL"
        IN  /\ psu.fan = "HARDWARE"
            /\ psu.ocp = mode
            /\ (WritesOf("12V_OCP_MODE") # {}) = (psu.before.ocp # mode)
            /\ (WritesOf("FAN_CONTROL_MODE") # {}) = (psu.before.fan # "HARDWARE")
            /\ WritesOf("FAN_COMMAND_1") = {}

\* C29's case: initialize(single_12v_ocp=True) after a set_fixed_speed of 42
\* on a multi-rail device writes both modes
C29_Witness ==
    /\ pc = "hxi"
    /\ psu.call.fn = "initialize"
    /\ psu.call.single_12v_ocp
    /\ psu.prev = "set_fixed_speed"
    /\ psu.before = [fan |-> "SOFTWARE", ocp |-> "MULTI_RAIL"]
    /\ psu.duty = 42
    /\ psu.fan = "HARDWARE"
    /\ psu.ocp = "SINGLE_RAIL"
    /\ Len(psu.writes) = 5
====
